---- MODULE Spec2Model ----
(***************************************************************************)
(* MyAnimeList MCP server: the fourteen tools of src/tools/*.py.  One tool *)
(* invocation validates its parameter object, opens an HTTP client, issues *)
(* a GET to the Jikan API, and maps the JSON envelope to response records. *)
(***************************************************************************)
EXTENDS Integers, Sequences, FiniteSets, TLC

\* ------------------------------------------------------------------------
\* Bounds of the model
\* ------------------------------------------------------------------------
\* number of parameter fields a caller supplies explicitly in one invocation
MaxSupplied == 2
\* number of elements of an upstream `data` list
MaxData == 2
\* integer ids passed to the id-keyed tools are drawn from 1..MaxId
MaxId == 2
\* tool coroutines the event loop runs at the same time
MaxTasks == 2
\* calls of setup_logger per logger name
MaxCalls == 2
\* lines written to one log file
MaxLines == 2

\* ------------------------------------------------------------------------
\* JSON / Python values: a tag and a payload.  None and JSON null are JNull.
\* ------------------------------------------------------------------------
JNull == [t |-> "null"]
JInt(n) == [t |-> "int", v |-> n]
JFloat(n) == [t |-> "float", v |-> n]
JStr(s) == [t |-> "str", v |-> s]
JBool(b) == [t |-> "bool", v |-> b]
JObj(f) == [t |-> "obj", v |-> f]
JList(l) == [t |-> "list", v |-> l]

IsNone(x) == x.t = "null"
IsDict(x) == x.t = "obj"
IsList(x) == x.t = "list"

\* d.get(key): an absent key yields None whatever the default
DictGetNoDefault(d, key, dflt) == IF key \in DOMAIN d.v THEN d.v[key] ELSE JNull

\* dict.get(key, default): the default only replaces an ABSENT key
DictGet(d, key, dflt) == IF key \in DOMAIN d.v THEN d.v[key] ELSE dflt

EmptyDict == JObj([k \in {} |-> JNull])
EmptyList == JList(<< >>)

\* a one-key and two-key dict
Obj1(k1, v1) == JObj([k \in {k1} |-> v1])
Obj2(k1, v1, k2, v2) == JObj([k \in {k1, k2} |-> IF k = k1 THEN v1 ELSE v2])

\* f-string interpolation of a value into a URL path
FormatValue(x) ==
    CASE x.t = "null" -> "None"
      [] x.t = "int"  -> ToString(x.v)
      [] x.t = "str"  -> x.v
      [] OTHER        -> "?"

\* ------------------------------------------------------------------------
\* The tools
\* ------------------------------------------------------------------------
AnimeTools == {"search_anime", "get_top_anime", "get_random_anime",
               "get_anime_reviews", "get_similar_anime", "get_anime_news",
               "get_seasonal_anime"}
MangaTools == {"search_manga", "get_top_manga", "get_random_manga",
               "get_manga_reviews", "get_similar_manga", "get_manga_news"}
ProducerTools == {"get_producer_details"}
Tools == AnimeTools \cup MangaTools \cup ProducerTools

\* tools whose signature has a pydantic parameter object
ParamTools == {"search_anime", "get_top_anime", "get_anime_reviews",
               "get_seasonal_anime", "search_manga", "get_top_manga",
               "get_manga_reviews", "get_producer_details"}
\* tools whose signature has an integer id
IdTools == {"get_anime_reviews", "get_similar_anime", "get_anime_news",
            "get_manga_reviews", "get_similar_manga", "get_manga_news"}
\* tools that return one record (data must be a dict)
SingleTools == {"get_random_anime", "get_random_manga"}
ListTools == Tools \ SingleTools

\* ------------------------------------------------------------------------
\* Parameter models (pydantic): one declaration per field
\* ------------------------------------------------------------------------
\* ty: "str" | "int" | "bool" | "enum"; opt: Optional[...] (None accepted);
\* req: no default; bounded: ge/le given; minlen: min_length (0 = none)
FieldDecl(name, ty, opt, req, dflt, enum, bounded, lo, hi, minlen) ==
    [name |-> name, ty |-> ty, opt |-> opt, req |-> req, dflt |-> dflt,
     enum |-> enum, bounded |-> bounded, lo |-> lo, hi |-> hi,
     minlen |-> minlen]

StrField(name, opt, req, dflt, minlen) ==
    FieldDecl(name, "str", opt, req, dflt, {}, FALSE, 0, 0, minlen)
EnumField(name, dflt, enum) ==
    FieldDecl(name, "enum", TRUE, FALSE, dflt, enum, FALSE, 0, 0, 0)
IntField(name, dflt, bounded, lo, hi) ==
    FieldDecl(name, "int", TRUE, FALSE, dflt, {}, bounded, lo, hi, 0)
BoolField(name, dflt) ==
    FieldDecl(name, "bool", TRUE, FALSE, dflt, {}, FALSE, 0, 0, 0)

StatusEnum == {"airing", "complete", "upcoming"}
RatingEnum == {"g", "pg", "pg13", "r17", "r", "rx"}
AnimeOrderEnum == {"mal_id", "title", "start_date", "end_date", "episodes",
                   "score", "rank", "popularity"}
MangaOrderEnum == {"mal_id", "title", "start_date", "end_date", "volumes",
                   "score", "rank", "popularity"}
SortEnum == {"desc", "asc"}
TopFilterEnum == {"airing", "upcoming", "bypopularity", "favorite"}
SeasonEnum == {"fall", "winter", "spring", "summer"}

AnimeSearchParams ==
    << StrField("query", FALSE, TRUE, JNull, 1),
       IntField("limit", JInt(5), TRUE, 1, 25),
       EnumField("status", JNull, StatusEnum),
       EnumField("rating", JNull, RatingEnum),
       EnumField("order_by", JStr("popularity"), AnimeOrderEnum),
       EnumField("sort", JStr("desc"), SortEnum),
       StrField("start_date", TRUE, FALSE, JNull, 0),
       StrField("end_date", TRUE, FALSE, JNull, 0) >>

TopAnimeParams ==
    << EnumField("filter", JStr("airing"), TopFilterEnum),
       EnumField("ratings", JStr("g"), RatingEnum),
       IntField("limit", JInt(10), FALSE, 0, 0) >>

AnimeReviewParams ==
    << BoolField("preliminary", JBool(TRUE)),
       BoolField("spoilers", JBool(FALSE)) >>

SeasonalAnimeParams ==
    << EnumField("season", JStr("spring"), SeasonEnum),
       IntField("year", JInt(2025), FALSE, 0, 0) >>

MangaSearchParams ==
    << StrField("query", FALSE, TRUE, JNull, 1),
       IntField("limit", JInt(5), TRUE, 1, 25),
       EnumField("status", JNull, StatusEnum),
       EnumField("order_by", JStr("popularity"), MangaOrderEnum),
       EnumField("sort", JStr("desc"), SortEnum),
       StrField("start_date", TRUE, FALSE, JNull, 0),
       StrField("end_date", TRUE, FALSE, JNull, 0) >>

TopMangaParams ==
    << EnumField("filter", JStr("airing"), TopFilterEnum),
       EnumField("ratings", JStr("g"), RatingEnum),
       IntField("limit", JInt(10), TRUE, 1, 500) >>

MangaReviewParams ==
    << BoolField("preliminary", JBool(TRUE)),
       BoolField("spoilers", JBool(FALSE)) >>

ProducerResourceParams ==
    << StrField("query", FALSE, FALSE, JStr("Toei Animation"), 1),
       IntField("limit", JInt(5), TRUE, 1, 25) >>

\* the parameter model in the signature of each tool (<< >>: none)
ParamModel(tool) ==
    CASE tool = "search_anime"         -> AnimeSearchParams
      [] tool = "get_top_anime"        -> TopAnimeParams
      [] tool = "get_anime_reviews"    -> AnimeReviewParams
      [] tool = "get_seasonal_anime"   -> SeasonalAnimeParams
      [] tool = "search_manga"         -> MangaSearchParams
      [] tool = "get_top_manga"        -> TopMangaParams
      [] tool = "get_manga_reviews"    -> MangaReviewParams
      [] tool = "get_producer_details" -> ProducerResourceParams
      [] OTHER                         -> << >>

FieldNames(model) == {model[i].name : i \in 1..Len(model)}
DeclOf(model, name) ==
    model[CHOOSE i \in 1..Len(model) : model[i].name = name]

\* length of a Python str, as far as min_length=1 can tell
StrLen(s) == IF s = "" THEN 0 ELSE 1

\* a Literal[...] field declared as a plain str
FieldValidAnyStr(decl, x) ==
    IF IsNone(x) THEN decl.opt
    ELSE CASE decl.ty = "str"  -> x.t = "str" /\ StrLen(x.v) >= decl.minlen
           [] decl.ty = "enum" -> x.t = "str"
           [] decl.ty = "int"  -> x.t = "int" /\
                                  (decl.bounded => (x.v >= decl.lo /\ x.v <= decl.hi))
           [] decl.ty = "bool" -> x.t = "bool"
           [] OTHER -> FALSE

\* pydantic validation of one supplied value against its declaration
FieldValid(decl, x) ==
    IF IsNone(x) THEN decl.opt
    ELSE CASE decl.ty = "str"  -> x.t = "str" /\ StrLen(x.v) >= decl.minlen
           [] decl.ty = "enum" -> x.t = "str" /\ x.v \in decl.enum
           [] decl.ty = "int"  -> x.t = "int" /\
                                  (decl.bounded => (x.v >= decl.lo /\ x.v <= decl.hi))
           [] decl.ty = "bool" -> x.t = "bool"
           [] OTHER -> FALSE

\* every field has a default: a field that is not supplied is not checked
ArgsValidAllDefaulted(model, args) ==
    \A i \in 1..Len(model) :
        model[i].name \in DOMAIN args
            => FieldValid(model[i], args[model[i].name])

\* pydantic validation of the caller's arguments: every supplied field is
\* valid and every required field is supplied
ArgsValid(model, args) ==
    \A i \in 1..Len(model) :
        IF model[i].name \in DOMAIN args
        THEN FieldValid(model[i], args[model[i].name])
        ELSE ~model[i].req

\* a field the caller did not supply is None, whatever its declared default
BuildParamsUnsetNone(model, args) ==
    [n \in FieldNames(model) |-> IF n \in DOMAIN args THEN args[n] ELSE JNull]

\* the validated parameter object: supplied values, defaults elsewhere
BuildParams(model, args) ==
    [n \in FieldNames(model) |->
        IF n \in DOMAIN args THEN args[n] ELSE DeclOf(model, n).dflt]

\* params.model_dump() without exclude_none
ModelDumpAll(p) == p

\* params.model_dump(exclude_none=True)
ModelDumpExcludeNone(p) ==
    [n \in {m \in DOMAIN p : ~IsNone(p[m])} |-> p[n]]

\* ------------------------------------------------------------------------
\* Response mapping: the keyword arguments each tool passes to its response
\* model, in source order
\* ------------------------------------------------------------------------
\* kind "get":     raw.get(key, dflt)
\* kind "nested":  raw.get(key, {}).get(sub, dflt)
\* kind "collect": [e.get(sub, dflt) for e in raw.get(key, []) (if isinstance(e, dict))]
Kw(kw, kind, key, sub, dflt, filtered) ==
    [kw |-> kw, kind |-> kind, key |-> key, sub |-> sub, dflt |-> dflt,
     filtered |-> filtered]
KGet(kw, key, dflt) == Kw(kw, "get", key, "", dflt, FALSE)
KNested(kw, key, sub, dflt) == Kw(kw, "nested", key, sub, dflt, FALSE)
KCollect(kw, key, sub, dflt, filtered) == Kw(kw, "collect", key, sub, dflt, filtered)

AnimeCommonKwargs ==
    << KGet("mal_id", "mal_id", JInt(0)),
       KGet("title", "title", JStr("")),
       KGet("episodes", "episodes", JInt(0)),
       KGet("status", "status", JStr("")),
       KGet("airing", "airing", JBool(FALSE)),
       KNested("start_date", "aired", "from", JStr("")),
       KNested("end_date", "aired", "to", JStr("")),
       KGet("duration", "duration", JStr("")),
       KGet("rating", "rating", JStr("")),
       KGet("score", "score", JFloat(0)),
       KGet("scored_by", "scored_by", JInt(0)),
       KGet("rank", "rank", JInt(0)),
       KGet("popularity", "popularity", JInt(0)),
       KGet("favorites", "favorites", JInt(0)),
       KGet("synopsis", "synopsis", JStr("")),
       KGet("background", "background", JStr("")),
       KGet("season", "season", JStr("")),
       KGet("year", "year", JInt(0)) >>

SearchAnimeKwargs ==
    AnimeCommonKwargs \o
    << KCollect("producer_mal_ids", "producers", "mal_id", JInt(0), TRUE),
       KCollect("producer_names", "producers", "name", JStr(""), TRUE),
       KCollect("studio_ids", "studios", "mal_id", JInt(0), TRUE),
       KCollect("studio_names", "studios", "name", JStr(""), TRUE),
       KCollect("genre_ids", "genres", "mal_id", JInt(0), TRUE),
       KCollect("genre_names", "genres", "name", JStr(""), TRUE) >>

SeasonalAnimeKwargs ==
    AnimeCommonKwargs \o
    << KCollect("producers_mal_ids", "producers", "mal_id", JInt(0), TRUE),
       KCollect("producer_names", "producers", "name", JStr(""), TRUE),
       KCollect("studio_ids", "studios", "mal_id", JInt(0), TRUE),
       KCollect("studio_names", "studios", "name", JStr(""), TRUE),
       KCollect("genre_ids", "genres", "mal_id", JInt(0), TRUE),
       KCollect("genre_names", "genres", "name", JStr(""), TRUE) >>

TopAnimeKwargs ==
    << KGet("title", "title_english", JStr("")),
       KGet("type", "type", JStr("")),
       KGet("episodes", "episodes", JInt(0)),
       KGet("status", "status", JStr("")),
       KGet("rating", "rating", JStr("")),
       KGet("rank", "rank", JInt(0)),
       KGet("synopsis", "synopsis", JStr("")),
       KGet("season", "season", JStr("")),
       KGet("year", "year", JInt(0)) >>

RandomAnimeKwargs == TopAnimeKwargs

ReviewKwargs ==
    << KGet("review", "review", JStr("")),
       KGet("date", "date", JStr("")) >>

SimilarKwargs ==
    << KNested("mal_id", "entry", "mal_id", JInt(0)),
       KNested("title", "entry", "title", JStr("")) >>

NewsKwargs ==
    << KGet("title", "title", JStr("")),
       KGet("date", "date", JStr("")),
       KGet("author_username", "author_username", JStr("")),
       KGet("url", "url", JStr("")),
       KGet("excerpt", "excerpt", JStr("")) >>

SearchMangaKwargs ==
    << KGet("mal_id", "mal_id", JInt(0)),
       KGet("title", "title_english", JStr("")),
       KGet("volumes", "volumes", JInt(0)),
       KGet("status", "status", JStr("")),
       KGet("publishing", "publishing", JBool(FALSE)),
       KNested("start_date", "published", "from", JStr("")),
       KNested("end_date", "published", "to", JStr("")),
       KGet("score", "score", JFloat(0)),
       KGet("scored_by", "scored_by", JInt(0)),
       KGet("rank", "rank", JInt(0)),
       KGet("popularity", "popularity", JInt(0)),
       KGet("favorites", "favorites", JInt(0)),
       KGet("synopsis", "synopsis", JStr("")),
       KGet("background", "background", JStr("")),
       KCollect("authors_mal_ids", "authors", "mal_id", JInt(0), TRUE),
       KCollect("authors_names", "authors", "name", JStr(""), TRUE),
       KCollect("genre_ids", "genres", "mal_id", JInt(0), TRUE),
       KCollect("genre_names", "genres", "name", JStr(""), TRUE) >>

TopMangaKwargs ==
    << KGet("title", "title_english", JStr("")),
       KGet("type", "type", JStr("")),
       KGet("volumes", "volumes", JInt(0)),
       KGet("status", "status", JStr("")),
       KGet("rank", "rank", JInt(0)),
       KGet("synopsis", "synopsis", JStr("")),
       KGet("season", "season", JStr("")),
       KGet("year", "year", JInt(0)) >>

RandomMangaKwargs == TopMangaKwargs

ProducerKwargs ==
    << KGet("about", "about", JStr("")),
       KCollect("titles", "titles", "title", JStr(""), FALSE) >>

ToolKwargs(tool) ==
    CASE tool = "search_anime"         -> SearchAnimeKwargs
      [] tool = "get_top_anime"        -> TopAnimeKwargs
      [] tool = "get_random_anime"     -> RandomAnimeKwargs
      [] tool = "get_anime_reviews"    -> ReviewKwargs
      [] tool = "get_similar_anime"    -> SimilarKwargs
      [] tool = "get_anime_news"       -> NewsKwargs
      [] tool = "get_seasonal_anime"   -> SeasonalAnimeKwargs
      [] tool = "search_manga"         -> SearchMangaKwargs
      [] tool = "get_top_manga"        -> TopMangaKwargs
      [] tool = "get_random_manga"     -> RandomMangaKwargs
      [] tool = "get_manga_reviews"    -> ReviewKwargs
      [] tool = "get_similar_manga"    -> SimilarKwargs
      [] tool = "get_manga_news"       -> NewsKwargs
      [] tool = "get_producer_details" -> ProducerKwargs

\* ------------------------------------------------------------------------
\* Response models (pydantic): declared fields, all Optional[...]
\* ------------------------------------------------------------------------
\* req: declared without a default (`review: Optional[str]`)
RF(name, ty) == [name |-> name, ty |-> ty, req |-> FALSE]
RFReq(name, ty) == [name |-> name, ty |-> ty, req |-> TRUE]

AnimeCommonFields ==
    << RF("mal_id", "int"), RF("title", "str"), RF("episodes", "int"),
       RF("status", "str"), RF("airing", "bool"), RF("start_date", "str"),
       RF("end_date", "str"), RF("duration", "str"), RF("rating", "str"),
       RF("score", "float"), RF("scored_by", "int"), RF("rank", "int"),
       RF("popularity", "int"), RF("favorites", "int"), RF("synopsis", "str"),
       RF("background", "str"), RF("season", "str"), RF("year", "int") >>

AnimeSearchResponse ==
    AnimeCommonFields \o
    << RF("producers_mal_ids", "list_int"), RF("producer_names", "list_str"),
       RF("studio_ids", "list_int"), RF("studio_name", "list_str"),
       RF("genre_ids", "list_int"), RF("genre_names", "list_str") >>

SeasonalAnimeResponse ==
    AnimeCommonFields \o
    << RF("producers_mal_ids", "list_int"), RF("producer_names", "list_str"),
       RF("studio_ids", "list_int"), RF("studio_names", "list_str"),
       RF("genre_ids", "list_int"), RF("genre_names", "list_str") >>

TopAnimeResponse ==
    << RF("title", "str"), RF("type", "str"), RF("episodes", "int"),
       RF("status", "str"), RF("rating", "str"), RF("rank", "int"),
       RF("synopsis", "str"), RF("season", "str"), RF("year", "int") >>

RandomAnimeResponse == TopAnimeResponse

AnimeReviewResponse == << RFReq("review", "str"), RFReq("date", "str") >>

SimilarAnimeResponse == << RF("mal_id", "int"), RF("title", "str") >>

AnimeNewsResponse ==
    << RF("title", "str"), RF("date", "str"), RF("author_username", "str"),
       RF("url", "str"), RF("excerpt", "str") >>

MangaSearchResponse ==
    << RF("mal_id", "int"), RF("title", "str"), RF("volumes", "int"),
       RF("status", "str"), RF("publishing", "bool"), RF("start_date", "str"),
       RF("end_date", "str"), RF("score", "float"), RF("scored_by", "int"),
       RF("rank", "int"), RF("popularity", "int"), RF("favorites", "int"),
       RF("synopsis", "str"), RF("background", "str"),
       RF("authors_mal_ids", "list_int"), RF("authors_names", "list_str"),
       RF("genre_ids", "list_int"), RF("genre_names", "list_str") >>

TopMangaResponse ==
    << RFReq("title", "str"), RF("type", "str"), RF("volumes", "int"),
       RF("status", "str"), RF("rank", "int"), RF("synopsis", "str"),
       RF("season", "str"), RF("year", "int") >>

RandomMangaResponse ==
    << RF("title", "str"), RF("type", "str"), RF("volumes", "int"),
       RF("status", "str"), RF("rank", "int"), RF("synopsis", "str"),
       RF("season", "str"), RF("year", "int") >>

MangaReviewResponse == << RFReq("review", "str"), RFReq("date", "str") >>

SimilarMangaResponse == << RF("mal_id", "int"), RF("title", "str") >>

MangaNewsResponse == AnimeNewsResponse

ProducerResourceResponse == << RF("about", "str"), RF("titles", "list_str") >>

ResponseModel(tool) ==
    CASE tool = "search_anime"         -> AnimeSearchResponse
      [] tool = "get_top_anime"        -> TopAnimeResponse
      [] tool = "get_random_anime"     -> RandomAnimeResponse
      [] tool = "get_anime_reviews"    -> AnimeReviewResponse
      [] tool = "get_similar_anime"    -> SimilarAnimeResponse
      [] tool = "get_anime_news"       -> AnimeNewsResponse
      [] tool = "get_seasonal_anime"   -> SeasonalAnimeResponse
      [] tool = "search_manga"         -> MangaSearchResponse
      [] tool = "get_top_manga"        -> TopMangaResponse
      [] tool = "get_random_manga"     -> RandomMangaResponse
      [] tool = "get_manga_reviews"    -> MangaReviewResponse
      [] tool = "get_similar_manga"    -> SimilarMangaResponse
      [] tool = "get_manga_news"       -> MangaNewsResponse
      [] tool = "get_producer_details" -> ProducerResourceResponse

\* ------------------------------------------------------------------------
\* Evaluation of the keyword arguments on one raw record (Python semantics)
\* ------------------------------------------------------------------------
\* iterating a value with `for e in ...`: a list yields its elements, a str
\* its characters and a dict its keys (none of them a dict); None, numbers
\* and booleans are not iterable (TypeError)
Iterable(x) == x.t \in {"list", "str", "obj"}
IterElems(x) ==
    CASE x.t = "list" -> x.v
      [] x.t = "str"  -> IF x.v = "" THEN << >> ELSE << JStr("c") >>
      [] x.t = "obj"  -> IF DOMAIN x.v = {} THEN << >> ELSE << JStr("k") >>
      [] OTHER        -> << >>

\* raw[key].get(sub, dflt): the sub-object is indexed, not defaulted
KwErrorIndexed(k, raw) ==
    CASE k.kind = "get" -> "ok"
      [] k.kind = "nested" ->
            IF k.key \in DOMAIN raw.v /\ IsDict(raw.v[k.key]) THEN "ok"
            ELSE "AttributeError"
      [] k.kind = "collect" ->
            LET c == DictGet(raw, k.key, EmptyList) IN
            IF ~Iterable(c) THEN "TypeError"
            ELSE IF ~k.filtered /\ \E i \in 1..Len(IterElems(c)) : ~IsDict(IterElems(c)[i])
                 THEN "AttributeError"
                 ELSE "ok"

\* the exception raised while evaluating one keyword argument, or "ok"
KwError(k, raw) ==
    CASE k.kind = "get" -> "ok"
      [] k.kind = "nested" ->
            IF IsDict(DictGet(raw, k.key, EmptyDict)) THEN "ok"
            ELSE "AttributeError"
      [] k.kind = "collect" ->
            LET c == DictGet(raw, k.key, EmptyList) IN
            IF ~Iterable(c) THEN "TypeError"
            ELSE IF ~k.filtered /\ \E i \in 1..Len(IterElems(c)) : ~IsDict(IterElems(c)[i])
                 THEN "AttributeError"
                 ELSE "ok"

\* raw.get(sub, dflt): the nested key is read from the record itself
KwValueFlat(k, raw) ==
    CASE k.kind = "get" -> DictGet(raw, k.key, k.dflt)
      [] k.kind = "nested" -> DictGet(raw, k.sub, k.dflt)
      [] k.kind = "collect" ->
            LET c == IterElems(DictGet(raw, k.key, EmptyList))
                kept == SelectSeq(c, IsDict)
            IN  JList([i \in 1..Len(kept) |-> DictGet(kept[i], k.sub, k.dflt)])

\* the value of one keyword argument (when KwError is "ok")
KwValue(k, raw) ==
    CASE k.kind = "get" -> DictGet(raw, k.key, k.dflt)
      [] k.kind = "nested" -> DictGet(DictGet(raw, k.key, EmptyDict), k.sub, k.dflt)
      [] k.kind = "collect" ->
            LET c == IterElems(DictGet(raw, k.key, EmptyList))
                kept == SelectSeq(c, IsDict)
            IN  JList([i \in 1..Len(kept) |-> DictGet(kept[i], k.sub, k.dflt)])

\* keyword arguments are evaluated left to right: the first failure wins
KwargsError(kws, raw) ==
    LET bad == {i \in 1..Len(kws) : KwError(kws[i], raw) # "ok"} IN
    IF bad = {} THEN "ok"
    ELSE KwError(kws[CHOOSE i \in bad : \A j \in bad : i <= j], raw)

KwNames(kws) == {kws[i].kw : i \in 1..Len(kws)}
KwOf(kws, name) == kws[CHOOSE i \in 1..Len(kws) : kws[i].kw = name]

\* ------------------------------------------------------------------------
\* pydantic validation of a response model (lax mode)
\* ------------------------------------------------------------------------
NumericStrings == {"0", "1", "7"}
ParseInt(s) == CASE s = "0" -> 0 [] s = "1" -> 1 [] s = "7" -> 7 [] OTHER -> 0
BoolAsInt(b) == IF b THEN 1 ELSE 0

\* a non-None value against a scalar type
ScalarOk(ty, x) ==
    CASE ty = "int"   -> x.t \in {"int", "float", "bool"} \/
                         (x.t = "str" /\ x.v \in NumericStrings)
      [] ty = "float" -> x.t \in {"int", "float", "bool"} \/
                         (x.t = "str" /\ x.v \in NumericStrings)
      [] ty = "str"   -> x.t = "str"
      [] ty = "bool"  -> x.t = "bool" \/
                         (x.t \in {"int", "float"} /\ x.v \in {0, 1}) \/
                         (x.t = "str" /\ x.v \in {"true", "false"})
      [] OTHER        -> FALSE

Number(x) ==
    CASE x.t \in {"int", "float"} -> x.v
      [] x.t = "bool" -> BoolAsInt(x.v)
      [] x.t = "str"  -> ParseInt(x.v)
      [] OTHER        -> 0

ScalarCoerce(ty, x) ==
    CASE ty = "int"   -> JInt(Number(x))
      [] ty = "float" -> JFloat(Number(x))
      [] ty = "str"   -> x
      [] ty = "bool"  -> IF x.t = "bool" THEN x
                         ELSE IF x.t = "str" THEN JBool(x.v = "true")
                         ELSE JBool(x.v = 1)
      [] OTHER        -> x

ElemType(ty) == IF ty = "list_int" THEN "int" ELSE "str"

\* Optional[T]: None is accepted as None; List[T] elements are not Optional
ValueOk(ty, x) ==
    IF IsNone(x) THEN TRUE
    ELSE IF ty \in {"list_int", "list_str"}
         THEN IsList(x) /\ \A i \in 1..Len(x.v) :
                  ~IsNone(x.v[i]) /\ ScalarOk(ElemType(ty), x.v[i])
         ELSE ScalarOk(ty, x)

ValueCoerce(ty, x) ==
    IF IsNone(x) THEN JNull
    ELSE IF ty \in {"list_int", "list_str"}
         THEN JList([i \in 1..Len(x.v) |-> ScalarCoerce(ElemType(ty), x.v[i])])
         ELSE ScalarCoerce(ty, x)

\* Model(**kwargs): a keyword that names no declared field is ignored
\* (pydantic's default extra='ignore'); a declared field that receives no
\* keyword takes its default None, or fails validation when it has none
ConstructOk(model, kws, raw) ==
    \A i \in 1..Len(model) :
        IF model[i].name \in KwNames(kws)
        THEN ValueOk(model[i].ty, KwValue(KwOf(kws, model[i].name), raw))
        ELSE ~model[i].req

Construct(model, kws, raw) ==
    [n \in {model[i].name : i \in 1..Len(model)} |->
        LET d == model[CHOOSE i \in 1..Len(model) : model[i].name = n] IN
        IF n \in KwNames(kws)
        THEN ValueCoerce(d.ty, KwValue(KwOf(kws, n), raw))
        ELSE JNull]

\* mapping one raw element: the exception raised ("ok" when none) ...
MapError(tool, raw) ==
    IF ~IsDict(raw) THEN "AttributeError"
    ELSE IF KwargsError(ToolKwargs(tool), raw) # "ok"
         THEN KwargsError(ToolKwargs(tool), raw)
         ELSE IF ~ConstructOk(ResponseModel(tool), ToolKwargs(tool), raw)
              THEN "ValidationError"
              ELSE "ok"

\* ... and the record built when there is none
MapRecord(tool, raw) == Construct(ResponseModel(tool), ToolKwargs(tool), raw)

\* ------------------------------------------------------------------------
\* The request
\* ------------------------------------------------------------------------
\* httpx.AsyncClient(timeout=...), in seconds
ClientTimeout(tool) ==
    IF tool \in {"search_anime", "get_top_anime"} THEN 120 ELSE 30

\* the manga tools reuse the URLs of the anime tools they were copied from
UrlPathCopied(tool, id, p) ==
    CASE tool = "search_anime"         -> << "anime" >>
      [] tool = "get_top_anime"        -> << "top", "anime" >>
      [] tool = "get_random_anime"     -> << "random", "anime" >>
      [] tool = "get_anime_reviews"    -> << "anime", ToString(id), "reviews" >>
      [] tool = "get_similar_anime"    -> << "anime", ToString(id), "recommendations" >>
      [] tool = "get_anime_news"       -> << "anime", ToString(id), "news" >>
      [] tool = "get_seasonal_anime"   -> << "seasons", FormatValue(p["year"]), FormatValue(p["season"]) >>
      [] tool = "search_manga"         -> << "manga" >>
      [] tool = "get_top_manga"        -> << "top", "manga" >>
      [] tool = "get_random_manga"     -> << "random", "manga" >>
      [] tool = "get_manga_reviews"    -> << "manga", ToString(id), "reviews" >>
      [] tool = "get_similar_manga"    -> << "manga", ToString(id), "recommendations" >>
      [] tool = "get_manga_news"       -> << "anime", ToString(id), "news" >>
      [] tool = "get_producer_details" -> << "producers" >>

\* the path segments of the f-string URL of each tool
UrlPath(tool, id, p) ==
    CASE tool = "search_anime"         -> << "anime" >>
      [] tool = "get_top_anime"        -> << "top", "anime" >>
      [] tool = "get_random_anime"     -> << "random", "anime" >>
      [] tool = "get_anime_reviews"    -> << "anime", ToString(id), "reviews" >>
      [] tool = "get_similar_anime"    -> << "anime", ToString(id), "recommendations" >>
      [] tool = "get_anime_news"       -> << "anime", ToString(id), "news" >>
      [] tool = "get_seasonal_anime"   -> << "seasons", FormatValue(p["year"]), FormatValue(p["season"]) >>
      [] tool = "search_manga"         -> << "manga" >>
      [] tool = "get_top_manga"        -> << "top", "manga" >>
      [] tool = "get_random_manga"     -> << "random", "manga" >>
      [] tool = "get_manga_reviews"    -> << "manga", ToString(id), "reviews" >>
      [] tool = "get_similar_manga"    -> << "manga", ToString(id), "recommendations" >>
      [] tool = "get_manga_news"       -> << "manga", ToString(id), "news" >>
      [] tool = "get_producer_details" -> << "producers" >>

\* tools that pass params=query_params to client.get
QueryTools == ParamTools \ {"get_seasonal_anime"}

NoQuery == [n \in {} |-> JNull]

\* the query-string mapping handed to client.get
QueryParams(tool, p) ==
    IF tool \in QueryTools THEN ModelDumpExcludeNone(p) ELSE NoQuery

\* tools that log the parameters before the request
LogsBeforeGet(tool) == tool \in {"search_anime", "get_top_anime"}
\* tools that log the mapped result before returning
LogsResult(tool) ==
    tool \in {"get_top_anime", "get_random_anime", "get_anime_reviews",
              "get_top_manga", "get_random_manga", "get_manga_reviews"}

\* ------------------------------------------------------------------------
\* The response
\* ------------------------------------------------------------------------
\* only server errors count as failures
IsSuccessBelow500(status) == status >= 200 /\ status <= 499

\* httpx Response.is_success
IsSuccess(status) == status >= 200 /\ status <= 299

SuccessStatuses == {200}
ErrorStatuses == {301, 404, 500}

\* a response body: text that is JSON (with its decoded value) or is not
JsonBody(v) == [json |-> TRUE, v |-> v]
TextBody == [json |-> FALSE, v |-> JNull]

\* raw records an upstream may send as an element of `data`
FullRecord ==
    JObj(("mal_id" :> JInt(16498)) @@ ("title" :> JStr("Attack on Titan")) @@
         ("title_english" :> JStr("Attack on Titan")) @@
         ("episodes" :> JInt(25)) @@
         ("aired" :> Obj2("from", JStr("2013-04-07"), "to", JStr("2013-09-29"))) @@
         ("published" :> Obj2("from", JStr("2009-09-09"), "to", JStr("2021-04-09"))) @@
         ("producers" :> JList(<< Obj2("mal_id", JInt(1), "name", JStr("Studio X")) >>)) @@
         ("authors" :> JList(<< Obj2("mal_id", JInt(5), "name", JStr("Isayama")) >>)) @@
         ("entry" :> Obj2("mal_id", JInt(37521), "title", JStr("Vinland Saga"))) @@
         ("review" :> JStr("great")) @@ ("date" :> JStr("2020-01-01")) @@
         ("about" :> JStr("a studio")) @@
         ("titles" :> JList(<< Obj2("type", JStr("Default"), "title", JStr("Studio X")) >>)))

PartialSpanRecord ==
    JObj(("mal_id" :> JInt(3)) @@
         ("aired" :> Obj1("from", JStr("2013-04-07"))) @@
         ("published" :> Obj1("to", JStr("2021-04-09"))) @@
         ("entry" :> Obj1("mal_id", JInt(3))))

NotAnObject == JStr("not-an-object")

NullScalarsRecord ==
    JObj(("mal_id" :> JNull) @@ ("title" :> JNull) @@ ("title_english" :> JNull) @@
         ("review" :> JNull) @@ ("about" :> JNull))

NullNestedRecord ==
    JObj(("mal_id" :> JInt(5)) @@ ("aired" :> JNull) @@ ("published" :> JNull) @@
         ("entry" :> JNull) @@ ("producers" :> JNull) @@ ("authors" :> JNull) @@
         ("titles" :> JNull))

MixedCollectionRecord ==
    JObj(("mal_id" :> JInt(6)) @@
         ("producers" :> JList(<< Obj2("mal_id", JInt(2), "name", JStr("B")),
                                  NotAnObject,
                                  Obj2("mal_id", JInt(3), "name", JStr("C")) >>)) @@
         ("authors" :> JList(<< Obj2("mal_id", JInt(2), "name", JStr("B")),
                                NotAnObject,
                                Obj2("mal_id", JInt(3), "name", JStr("C")) >>)) @@
         ("titles" :> JList(<< Obj1("title", JStr("T")), NotAnObject >>)))

BadTypeRecord ==
    JObj(("mal_id" :> JStr("abc")) @@ ("title" :> JInt(9)) @@
         ("title_english" :> JInt(9)) @@ ("review" :> JInt(9)) @@
         ("about" :> JInt(9)) @@ ("entry" :> Obj1("mal_id", JStr("abc"))))

RawSamples ==
    << FullRecord, EmptyDict, PartialSpanRecord, NotAnObject, NullScalarsRecord,
       NullNestedRecord, MixedCollectionRecord, BadTypeRecord >>

\* the samples that are JSON objects
ObjectSamples == {i \in 1..Len(RawSamples) : IsDict(RawSamples[i])}

\* decoded bodies whose top level is not {"data": <list>}
OddBodies ==
    << TextBody,
       JsonBody(EmptyList),
       JsonBody(EmptyDict),
       JsonBody(Obj1("pagination", EmptyDict)),
       JsonBody(Obj1("data", JNull)) >>

\* the bodies sent with an error status
ErrorBodies == << TextBody, JsonBody(Obj1("error", JStr("boom"))) >>

\* ------------------------------------------------------------------------
\* The body of a tool after `await client.get(...)` has produced a response
\* ------------------------------------------------------------------------
NoResult == [shape |-> "none", v |-> << >>]
NoError == [name |-> "none", status |-> 0, body |-> TextBody]
Raised(name) == [name |-> name, status |-> 0, body |-> TextBody]

Levels(n, level) == [i \in 1..n |-> level]

\* what the rest of the handler computes: the exception raised (or none),
\* the value returned, whether response.json() ran, how many response
\* records were constructed, and the log levels written
Ending(error, result, decoded, mapped, log) ==
    [error |-> error, result |-> result, decoded |-> decoded,
     mapped |-> mapped, log |-> log]

\* the loop without its try/except: the first exception ends the invocation
MapLoopUncaught(tool, data) ==
    LET bad == {i \in 1..Len(data) : IsDict(data[i]) /\ MapError(tool, data[i]) # "ok"}
        first == CHOOSE i \in bad : \A j \in bad : i <= j
        Good(e) == MapError(tool, e) = "ok"
        kept == SelectSeq(data, Good)
    IN  IF bad = {}
        THEN Ending(NoError,
                    [shape |-> "list",
                     v |-> [i \in 1..Len(kept) |-> MapRecord(tool, kept[i])]],
                    TRUE, Len(kept),
                    << "info", "info" >> \o Levels(Len(data) - Len(kept), "warning")
                        \o << "info" >>)
        ELSE Ending(Raised(MapError(tool, data[first])), NoResult, TRUE,
                    Len(SelectSeq(SubSeq(data, 1, first - 1), Good)),
                    << "info", "info", "error" >>)

\* search_anime: the per-record loop with its try/except/continue
MapLoop(tool, data) ==
    LET Good(e) == MapError(tool, e) = "ok"
        kept == SelectSeq(data, Good)
        recs == [i \in 1..Len(kept) |-> MapRecord(tool, kept[i])]
    IN  Ending(NoError, [shape |-> "list", v |-> recs], TRUE, Len(recs),
               << "info", "info" >> \o Levels(Len(data) - Len(kept), "warning")
                   \o << "info" >>)

\* the comprehension iterates `data` from its last element to its first
MapComprehensionReversed(tool, data) ==
    LET bad == {i \in 1..Len(data) : MapError(tool, data[i]) # "ok"}
        first == CHOOSE i \in bad : \A j \in bad : i <= j
    IN  IF bad = {}
        THEN Ending(NoError,
                    [shape |-> "list",
                     v |-> [i \in 1..Len(data) |->
                               MapRecord(tool, data[Len(data) + 1 - i])]],
                    TRUE, Len(data),
                    IF LogsResult(tool) THEN << "info" >> ELSE << >>)
        ELSE Ending(Raised(MapError(tool, data[first])), NoResult, TRUE,
                    first - 1, << "error" >>)

\* every other list tool: one list comprehension over `data`
MapComprehension(tool, data) ==
    LET bad == {i \in 1..Len(data) : MapError(tool, data[i]) # "ok"}
        first == CHOOSE i \in bad : \A j \in bad : i <= j
    IN  IF bad = {}
        THEN Ending(NoError,
                    [shape |-> "list",
                     v |-> [i \in 1..Len(data) |-> MapRecord(tool, data[i])]],
                    TRUE, Len(data),
                    IF LogsResult(tool) THEN << "info" >> ELSE << >>)
        ELSE Ending(Raised(MapError(tool, data[first])), NoResult, TRUE,
                    first - 1, << "error" >>)

\* the single-record tools
MapSingle(tool, data) ==
    IF MapError(tool, data) = "ok"
    THEN Ending(NoError, [shape |-> "record", v |-> << MapRecord(tool, data) >>],
                TRUE, 1, << "info" >>)
    ELSE Ending(Raised(MapError(tool, data)), NoResult, TRUE, 0, << "error" >>)

\* a single-record tool that maps whatever `data` holds
DataShapeOkUnchecked(tool, data) ==
    IF tool \in SingleTools THEN TRUE ELSE IsList(data)

\* isinstance(data, list) for the list tools, isinstance(data, dict) for
\* the single-record tools
DataShapeOk(tool, data) ==
    IF tool \in SingleTools THEN IsDict(data) ELSE IsList(data)

\* from response.json() to the return statement
HandleBody(tool, body) ==
    IF ~body.json
    THEN Ending(Raised("ValueError"), NoResult, FALSE, 0, << "error", "error" >>)
    ELSE IF ~IsDict(body.v)
    THEN Ending(Raised("AttributeError"), NoResult, TRUE, 0, << "error" >>)
    ELSE LET data == DictGet(body.v, "data",
                             IF tool \in SingleTools THEN EmptyDict ELSE EmptyList)
         IN  IF ~DataShapeOk(tool, data)
             THEN Ending(Raised("ValueError"), NoResult, TRUE, 0,
                         << "error", "error" >>)
             ELSE IF tool \in SingleTools
                  THEN MapSingle(tool, data)
                  ELSE IF tool = "search_anime"
                       THEN MapLoop(tool, data.v)
                       ELSE MapComprehension(tool, data.v)

\* a status error is logged and an empty result returned
HandleResponseSwallow(tool, status, body) ==
    IF ~IsSuccess(status)
    THEN Ending(NoError,
                IF tool \in SingleTools
                THEN [shape |-> "record", v |-> << >>]
                ELSE [shape |-> "list", v |-> << >>],
                FALSE, 0, << "error" >>)
    ELSE HandleBody(tool, body)

\* response.raise_for_status() and what follows it
HandleResponse(tool, status, body) ==
    IF ~IsSuccess(status)
    THEN Ending([name |-> "HTTPStatusError", status |-> status, body |-> body],
                NoResult, FALSE, 0, << "error", "error" >>)
    ELSE HandleBody(tool, body)

\* ------------------------------------------------------------------------
\* Inputs of an invocation
\* ------------------------------------------------------------------------
\* the values a caller may supply for a field: None, valid and invalid ones
ValidEnum(decl) ==
    CHOOSE e \in decl.enum : decl.dflt.t = "str" => e # decl.dflt.v

Candidates(tool, decl) ==
    CASE decl.ty = "enum" -> << JNull, JStr(ValidEnum(decl)), JStr("bogus") >>
      [] decl.ty = "bool" -> << JNull, JBool(TRUE), JBool(FALSE) >>
      [] decl.name = "query" -> << JNull, JStr(""), JStr("naruto") >>
      [] decl.ty = "str"  -> << JNull, JStr("2020-01-01") >>
      [] decl.name = "year" -> << JNull, JInt(2024) >>
      [] decl.name = "limit" /\ tool \in {"get_top_anime", "get_top_manga"} ->
            << JNull, JInt(0), JInt(1), JInt(500), JInt(501) >>
      [] decl.name = "limit" ->
            << JNull, JInt(0), JInt(1), JInt(25), JInt(26) >>

MaxCandidates == 5

\* the argument mappings a caller may pass for the parameter object
ArgChoices(tool) ==
    LET model == ParamModel(tool) IN
    UNION {
        { ix \in [S -> 1..MaxCandidates] :
            \A n \in S : ix[n] <= Len(Candidates(tool, DeclOf(model, n))) }
        : S \in {T \in SUBSET FieldNames(model) : Cardinality(T) <= MaxSupplied} }

ArgsOf(tool, ix) ==
    [n \in DOMAIN ix |-> Candidates(tool, DeclOf(ParamModel(tool), n))[ix[n]]]

IdChoices(tool) == IF tool \in IdTools THEN 1..MaxId ELSE {0}

\* os.getenv("BASE_URL") after load_dotenv(): unset, empty, or a URL
EnvChoices == << JNull, JStr(""), JStr("https://api.jikan.moe/v4") >>

\* the upstream `data` lists: up to MaxData elements drawn from RawSamples
DataLists ==
    UNION { [1..n -> 1..Len(RawSamples)] : n \in 0..MaxData }
ListOf(ixs) == JList([i \in 1..Len(ixs) |-> RawSamples[ixs[i]]])

\* ------------------------------------------------------------------------
\* State
\* ------------------------------------------------------------------------
VARIABLES
    pc,          \* "idle" | "awaiting" (suspended in client.get) | "done"
    tool,        \* the tool invoked ("" when idle)
    id,          \* its integer id argument (0 when it has none)
    args,        \* the caller's arguments for the parameter object
    params,      \* the validated parameter object
    requests,    \* the GETs issued by this invocation, in order
    resp,        \* what the awaited GET produced
    error,       \* the exception the invocation raised
    result,      \* the value the invocation returned
    decoded,     \* response.json() was called
    mapped,      \* number of response records constructed
    log,         \* levels of the log entries written by this invocation
    clientOpen,  \* the invocation's AsyncClient is open
    env,         \* the value of BASE_URL in the process environment
    BASE_URL,    \* the module-level name bound by config.py (None: unbound)
    server,      \* "importing" | "serving" | "failed"
    tasks,       \* the tool coroutines of the event loop, by task number
    logfile,     \* the entries appended to the process-wide logger
    clients,     \* the AsyncClient objects that are open
    loggers,     \* logging's registry: level and handlers of each named logger
    setups,      \* number of setup_logger calls made for each logger name
    files,       \* number of lines in each log file
    emitted      \* number of lines the last log call wrote

NoArgs == [n \in {} |-> JNull]
NoResp == [kind |-> "none", status |-> 0, body |-> TextBody]

\* the logger names and log files setup_logger is called with
LoggerNames == {"MAL_MCPServer", "other"}
LogFiles == {"mal_mcp_server.log", "other.log"}

\* logging.getLogger(name) before any configuration: level NOTSET, no handler
NewLogger == [level |-> "NOTSET", handlers |-> << >>]

\* logging.FileHandler(log_file) with setLevel(DEBUG) and the formatter
FileHandler(log_file) == [kind |-> "FileHandler", file |-> log_file, level |-> "DEBUG"]

\* the logging state of the process
loggerVars == << loggers, setups, files, emitted >>

\* the process-wide configuration
procVars == << env, BASE_URL, server, loggerVars >>

\* the one invocation followed step by step
callVars == << pc, tool, id, args, params, requests, resp, error, result,
               decoded, mapped, log, clientOpen >>

\* the coroutines running concurrently
taskVars == << tasks, logfile, clients >>

vars == << callVars, procVars, taskVars >>

Tasks == 1..MaxTasks

\* a task that has not been invoked; client 0 is no client
IdleTask ==
    [pc |-> "idle", tool |-> "", id |-> 0, args |-> NoArgs, params |-> NoArgs,
     requests |-> << >>, resp |-> NoResp, error |-> NoError,
     result |-> NoResult, client |-> 0, waited |-> 0]

Init ==
    /\ \E e \in 1..Len(EnvChoices) : env = EnvChoices[e]
    /\ BASE_URL = JNull
    /\ server = "importing"
    /\ tasks = [k \in Tasks |-> IdleTask]
    /\ logfile = << >>
    /\ clients = {}
    /\ loggers = [n \in LoggerNames |-> NewLogger]
    /\ setups = [n \in LoggerNames |-> 0]
    /\ files = [f \in LogFiles |-> 0]
    /\ emitted = 0
    /\ pc = "idle"
    /\ tool = ""
    /\ id = 0
    /\ args = NoArgs
    /\ params = NoArgs
    /\ requests = << >>
    /\ resp = NoResp
    /\ error = NoError
    /\ result = NoResult
    /\ decoded = FALSE
    /\ mapped = 0
    /\ log = << >>
    /\ clientOpen = FALSE

\* `not base_url` is never true: the value is bound whatever it is
load_environment_config_unchecked ==
    /\ server = "importing"
    /\ BASE_URL' = env
    /\ server' = "serving"
    /\ UNCHANGED << env, loggerVars, callVars, taskVars >>

\* config.py is imported: BASE_URL, mcp = load_environment_config().  The
\* ValueError of an unset or empty BASE_URL aborts the import of server.py.
load_environment_config ==
    /\ server = "importing"
    /\ IF IsNone(env) \/ env = JStr("")
       THEN /\ server' = "failed"
            /\ BASE_URL' = BASE_URL
       ELSE /\ server' = "serving"
            /\ BASE_URL' = env
    /\ UNCHANGED << env, loggerVars, callVars, taskVars >>

\* the GET a tool issues: f"{BASE_URL}/..."
Request(t, i, p) ==
    [base |-> FormatValue(BASE_URL), path |-> UrlPath(t, i, p),
     query |-> QueryParams(t, p), timeout |-> ClientTimeout(t)]

\* A caller invokes tool t.  The framework validates the arguments against
\* the signature; on success the body runs up to `await client.get(...)`.
Invoke(t, i, a) ==
    /\ server = "serving"
    /\ pc = "idle"
    /\ UNCHANGED << procVars, taskVars >>
    /\ tool' = t
    /\ id' = i
    /\ args' = a
    /\ resp' = NoResp
    /\ result' = NoResult
    /\ decoded' = FALSE
    /\ mapped' = 0
    /\ IF ArgsValid(ParamModel(t), a)
       THEN /\ pc' = "awaiting"
            /\ params' = BuildParams(ParamModel(t), a)
            /\ clientOpen' = TRUE
            /\ requests' = << Request(t, i, BuildParams(ParamModel(t), a)) >>
            /\ log' = IF LogsBeforeGet(t) THEN << "info" >> ELSE << >>
            /\ error' = NoError
       ELSE /\ pc' = "done"
            /\ params' = NoArgs
            /\ clientOpen' = FALSE
            /\ requests' = << >>
            /\ log' = << >>
            /\ error' = Raised("ParameterValidationError")

\* a handler that repeats the GET once when the first attempt failed
ConcludeRetry(e) ==
    /\ pc' = "done"
    /\ error' = e.error
    /\ result' = e.result
    /\ decoded' = e.decoded
    /\ mapped' = e.mapped
    /\ log' = log \o e.log
    /\ clientOpen' = FALSE
    /\ requests' = IF e.error.name = "none" THEN requests ELSE requests \o requests
    /\ UNCHANGED << tool, id, args, params, procVars, taskVars >>

\* the rest of the handler runs to its end and the client is closed
Conclude(e) ==
    /\ pc' = "done"
    /\ error' = e.error
    /\ result' = e.result
    /\ decoded' = e.decoded
    /\ mapped' = e.mapped
    /\ log' = log \o e.log
    /\ clientOpen' = FALSE
    /\ UNCHANGED << tool, id, args, params, requests, procVars, taskVars >>

\* client.get raises httpx.TimeoutException
RecvTimeout ==
    /\ pc = "awaiting"
    /\ resp' = [kind |-> "timeout", status |-> 0, body |-> TextBody]
    /\ Conclude(Ending(Raised("TimeoutException"), NoResult, FALSE, 0,
                       << "error", "error" >>))

\* client.get raises another httpx.RequestError
RecvNetworkError ==
    /\ pc = "awaiting"
    /\ resp' = [kind |-> "network", status |-> 0, body |-> TextBody]
    /\ Conclude(Ending(Raised("RequestError"), NoResult, FALSE, 0,
                       << "error", "error" >>))

\* client.get returns a response
RecvResponse(status, body) ==
    /\ pc = "awaiting"
    /\ resp' = [kind |-> "http", status |-> status, body |-> body]
    /\ Conclude(HandleResponse(tool, status, body))

\* the caller has received the outcome; the invocation's objects are dropped
Finish ==
    /\ pc = "done"
    /\ pc' = "idle"
    /\ tool' = ""
    /\ id' = 0
    /\ args' = NoArgs
    /\ params' = NoArgs
    /\ requests' = << >>
    /\ resp' = NoResp
    /\ error' = NoError
    /\ result' = NoResult
    /\ decoded' = FALSE
    /\ mapped' = 0
    /\ log' = << >>
    /\ clientOpen' = FALSE
    /\ UNCHANGED << procVars, taskVars >>

Next ==
    \/ load_environment_config
    \/ \E t \in Tools : \E i \in IdChoices(t) : \E ix \in ArgChoices(t) :
           Invoke(t, i, ArgsOf(t, ix))
    \/ RecvTimeout
    \/ RecvNetworkError
    \/ \E s \in ErrorStatuses : \E b \in 1..Len(ErrorBodies) :
           RecvResponse(s, ErrorBodies[b])
    \/ \E s \in SuccessStatuses : \E b \in 1..Len(OddBodies) :
           RecvResponse(s, OddBodies[b])
    \/ \E s \in SuccessStatuses : \E k \in ObjectSamples :
           RecvResponse(s, JsonBody(Obj1("data", RawSamples[k])))
    \/ \E s \in SuccessStatuses : \E l \in DataLists :
           RecvResponse(s, JsonBody(Obj1("data", ListOf(l))))
    \/ Finish

Spec == Init /\ [][Next]_vars

\* ------------------------------------------------------------------------
\* Concurrent invocations: the event loop runs up to MaxTasks tool
\* coroutines, each suspended only at `await client.get(...)`
\* ------------------------------------------------------------------------
\* the tools, arguments and upstream answers of the concurrent runs
TaskTools == {"search_anime", "get_random_manga"}

TaskArgs(t) ==
    IF t = "search_anime"
    THEN << NoArgs, [n \in {"query"} |-> JStr("naruto")] >>
    ELSE << NoArgs >>

TaskResponses(t) ==
    IF t = "search_anime"
    THEN << [status |-> 404, body |-> ErrorBodies[2]],
            [status |-> 200, body |-> JsonBody(EmptyList)],
            [status |-> 200, body |-> JsonBody(Obj1("data", ListOf(<< 1, 4 >>)))] >>
    ELSE << [status |-> 200, body |-> TextBody],
            [status |-> 200, body |-> JsonBody(Obj1("data", FullRecord))] >>

\* httpx.AsyncClient(timeout=...) constructs a new client in each invocation
AcquireClient(k) == k

\* the client is closed only when the body returned normally
ExitClientOnReturn(open, k, e) ==
    IF e.error.name = "none" THEN open \ {tasks[k].client} ELSE open

\* leaving `async with ... as client`: __aexit__ closes the client whether
\* the body returned or raised
ExitClient(open, k, e) == open \ {tasks[k].client}

\* an invocation that ends after another one has failed fails as well
TaskEndSticky(k, r, e) ==
    IF \E j \in Tasks \ {k} :
           /\ tasks[j].pc = "done"
           /\ tasks[j].error.name \notin {"none", "ParameterValidationError"}
    THEN [tasks[k] EXCEPT !.pc = "done", !.resp = r,
                          !.error = Raised("RequestError"),
                          !.result = NoResult, !.waited = 0]
    ELSE [tasks[k] EXCEPT !.pc = "done", !.resp = r, !.error = e.error,
                          !.result = e.result, !.waited = 0]

\* `result` is one module-level list that every invocation appends to
TaskEndAccumulating(k, r, e) ==
    LET earlier == {j \in Tasks \ {k} :
                       tasks[j].pc = "done" /\ tasks[j].result.shape = "list"}
        kept == IF earlier = {} \/ e.result.shape # "list"
                THEN e.result
                ELSE [shape |-> "list",
                      v |-> tasks[CHOOSE j \in earlier : TRUE].result.v
                                \o e.result.v]
    IN  [tasks[k] EXCEPT !.pc = "done", !.resp = r, !.error = e.error,
                         !.result = kept, !.waited = 0]

\* the coroutine's locals when it ends: what it raised or returned
TaskEnd(k, r, e) ==
    [tasks[k] EXCEPT !.pc = "done", !.resp = r, !.error = e.error,
                     !.result = e.result, !.waited = 0]

\* the rest of the handler of task k runs to its end without suspending
TaskConclude(k, r, e) ==
    /\ tasks' = [tasks EXCEPT ![k] = TaskEnd(k, r, e)]
    /\ clients' = ExitClient(clients, k, e)
    /\ logfile' = logfile \o [i \in 1..Len(e.log) |->
                                  [task |-> k, level |-> e.log[i]]]
    /\ UNCHANGED << callVars, procVars >>

\* the runtime schedules tool t as task k; it runs up to the await
TaskInvoke(k, t, i, a) ==
    /\ server = "serving"
    /\ tasks[k].pc = "idle"
    /\ IF ArgsValid(ParamModel(t), a)
       THEN /\ tasks' = [tasks EXCEPT ![k] =
                  [pc |-> "awaiting", tool |-> t, id |-> i, args |-> a,
                   params |-> BuildParams(ParamModel(t), a),
                   requests |-> << Request(t, i, BuildParams(ParamModel(t), a)) >>,
                   resp |-> NoResp, error |-> NoError, result |-> NoResult,
                   client |-> AcquireClient(k), waited |-> 0]]
            /\ clients' = clients \cup {AcquireClient(k)}
            /\ logfile' = IF LogsBeforeGet(t)
                          THEN Append(logfile, [task |-> k, level |-> "info"])
                          ELSE logfile
       ELSE /\ tasks' = [tasks EXCEPT ![k] =
                  [IdleTask EXCEPT !.pc = "done", !.tool = t, !.id = i,
                                   !.args = a,
                                   !.error = Raised("ParameterValidationError")]]
            /\ UNCHANGED << clients, logfile >>
    /\ UNCHANGED << callVars, procVars >>

\* the clock advances in steps of the shortest client timeout
TickSeconds == ClientTimeout("get_random_manga")

\* time passes while task k waits for the upstream
TaskTick(k) ==
    /\ tasks[k].pc = "awaiting"
    /\ tasks[k].waited < ClientTimeout(tasks[k].tool)
    /\ tasks' = [tasks EXCEPT ![k].waited = @ + TickSeconds]
    /\ UNCHANGED << logfile, clients, callVars, procVars >>

\* the client has no timeout: the wait is never interrupted
TaskTimeoutNever(k) ==
    /\ tasks[k].pc = "awaiting"
    /\ FALSE
    /\ UNCHANGED vars

\* the client's timeout has elapsed: client.get raises TimeoutException
TaskTimeout(k) ==
    /\ tasks[k].pc = "awaiting"
    /\ tasks[k].waited >= ClientTimeout(tasks[k].tool)
    /\ TaskConclude(k, [kind |-> "timeout", status |-> 0, body |-> TextBody],
                    Ending(Raised("TimeoutException"), NoResult, FALSE, 0,
                           << "error", "error" >>))

TaskNetworkError(k) ==
    /\ tasks[k].pc = "awaiting"
    /\ TaskConclude(k, [kind |-> "network", status |-> 0, body |-> TextBody],
                    Ending(Raised("RequestError"), NoResult, FALSE, 0,
                           << "error", "error" >>))

TaskResponse(k, status, body) ==
    /\ tasks[k].pc = "awaiting"
    /\ TaskConclude(k, [kind |-> "http", status |-> status, body |-> body],
                    HandleResponse(tasks[k].tool, status, body))

ConcurrentNext ==
    \/ load_environment_config
    \/ \E k \in Tasks : \E t \in TaskTools : \E a \in 1..Len(TaskArgs(t)) :
           TaskInvoke(k, t, 0, TaskArgs(t)[a])
    \/ \E k \in Tasks : TaskTick(k)
    \/ \E k \in Tasks : TaskTimeout(k)
    \/ \E k \in Tasks : TaskNetworkError(k)
    \/ \E k \in Tasks : \E r \in 1..Len(TaskResponses(tasks[k].tool)) :
           TaskResponse(k, TaskResponses(tasks[k].tool)[r].status,
                        TaskResponses(tasks[k].tool)[r].body)

ConcurrentSpec == Init /\ [][ConcurrentNext]_vars

\* time advances and a due timeout fires; the upstream owes no answer
FairSpec ==
    /\ ConcurrentSpec
    /\ \A k \in Tasks : WF_vars(TaskTick(k)) /\ WF_vars(TaskTimeout(k))

\* ------------------------------------------------------------------------
\* The logger: utils/logger.py
\* ------------------------------------------------------------------------
\* a handler is added on every call, whether or not the logger has one
setup_logger_unguarded(name, log_file) ==
    /\ setups[name] < MaxCalls
    /\ setups' = [setups EXCEPT ![name] = @ + 1]
    /\ loggers' = [loggers EXCEPT ![name] =
           [level |-> "DEBUG",
            handlers |-> Append(@.handlers, FileHandler(log_file))]]
    /\ UNCHANGED << files, emitted, env, BASE_URL, server, callVars, taskVars >>

\* setup_logger(name, log_file): getLogger returns the one logger of that
\* name; its level is set; a file handler is added unless it has a handler
setup_logger(name, log_file) ==
    /\ setups[name] < MaxCalls
    /\ setups' = [setups EXCEPT ![name] = @ + 1]
    /\ loggers' = [loggers EXCEPT ![name] =
           [level |-> "DEBUG",
            handlers |-> IF @.handlers # << >>
                         THEN @.handlers
                         ELSE Append(@.handlers, FileHandler(log_file))]]
    /\ UNCHANGED << files, emitted, env, BASE_URL, server, callVars, taskVars >>

\* the lines one record adds to file f: one per handler writing to f
LinesTo(name, f) ==
    Cardinality({i \in 1..Len(loggers[name].handlers) :
                    loggers[name].handlers[i].file = f})

\* logger.info(...) on the logger of that name: a logger that was never set
\* up inherits the root's WARNING level and drops the record; otherwise
\* each of its handlers writes one line to its file
logger_info(name) ==
    /\ \A f \in LogFiles : files[f] + LinesTo(name, f) <= MaxLines
    /\ IF loggers[name].level = "DEBUG"
       THEN /\ files' = [f \in LogFiles |-> files[f] + LinesTo(name, f)]
            /\ emitted' = Len(loggers[name].handlers)
       ELSE /\ files' = files
            /\ emitted' = 0
    /\ UNCHANGED << loggers, setups, env, BASE_URL, server, callVars, taskVars >>

LoggerNext ==
    \/ \E n \in LoggerNames : \E f \in LogFiles : setup_logger(n, f)
    \/ \E n \in LoggerNames : logger_info(n)

LoggerSpec == Init /\ [][LoggerNext]_vars

\* ------------------------------------------------------------------------
\* Shape of the state
\* ------------------------------------------------------------------------
ErrorNames ==
    {"none", "ParameterValidationError", "TimeoutException", "HTTPStatusError",
     "RequestError", "ValueError", "AttributeError", "TypeError",
     "ValidationError"}

TypeOK ==
    /\ pc \in {"idle", "awaiting", "done"}
    /\ tool \in Tools \cup {""}
    /\ id \in 0..MaxId
    /\ Len(requests) \in 0..1
    /\ error.name \in ErrorNames
    /\ result.shape \in {"none", "list", "record"}
    /\ decoded \in BOOLEAN
    /\ mapped \in 0..MaxData
    /\ clientOpen \in BOOLEAN
    /\ server \in {"importing", "serving", "failed"}
    /\ BASE_URL.t \in {"null", "str"}
    /\ clients \subseteq Tasks
    /\ \A k \in Tasks :
          /\ tasks[k].pc \in {"idle", "awaiting", "done"}
          /\ tasks[k].tool \in TaskTools \cup {""}
          /\ tasks[k].error.name \in ErrorNames
    /\ \A i \in 1..Len(logfile) : logfile[i].task \in Tasks
    /\ \A n \in LoggerNames :
          /\ loggers[n].level \in {"NOTSET", "DEBUG"}
          /\ setups[n] \in 0..MaxCalls
    /\ \A f \in LogFiles : files[f] \in 0..MaxLines

\* ------------------------------------------------------------------------
\* Vocabulary of the properties
\* ------------------------------------------------------------------------
Done == pc = "done"
Returned == Done /\ error.name = "none"
Non2xx(status) == status < 200 \/ status > 299

\* the invocation received a 2xx response whose body is a JSON object with
\* a `data` key
GotData ==
    /\ resp.kind = "http"
    /\ ~Non2xx(resp.status)
    /\ resp.body.json
    /\ resp.body.v.t = "obj"
    /\ "data" \in DOMAIN resp.body.v.v
RespData == resp.body.v.v["data"]

\* a raw record that conforms to the upstream schema wherever it has a key:
\* sub-objects are objects, collections are lists of objects, ids are
\* integers and texts are strings (or null)
SubObjectKeys == {"aired", "published", "entry"}
CollectionKeys == {"producers", "studios", "genres", "authors", "titles"}
IntKeys == {"mal_id", "episodes", "volumes"}
TextKeys == {"title", "title_english", "review", "date", "about"}
Conforms(raw) ==
    /\ raw.t = "obj"
    /\ \A k \in DOMAIN raw.v :
        /\ k \in SubObjectKeys => raw.v[k].t = "obj"
        /\ k \in CollectionKeys =>
              /\ raw.v[k].t = "list"
              /\ \A i \in 1..Len(raw.v[k].v) : raw.v[k].v[i].t = "obj"
        /\ k \in IntKeys => raw.v[k].t \in {"int", "null"}
        /\ k \in TextKeys => raw.v[k].t \in {"str", "null"}

\* the supplied value of a categorical field lies outside its enumeration
OutsideEnumeration(decl, x) ==
    decl.ty = "enum" /\ x.t # "null" /\ (x.t # "str" \/ x.v \notin decl.enum)

RejectedBeforeGet ==
    Done /\ error.name = "ParameterValidationError" /\ requests = << >>

\* ------------------------------------------------------------------------
\* C1: an invocation issues at most one GET, exactly one once its
\* parameters have passed validation, and still exactly one after it has
\* ended in a timeout, status, network or response-format error
\* ------------------------------------------------------------------------
C1_OneGetPerInvocation ==
    /\ Len(requests) <= 1
    /\ (pc # "idle" /\ ArgsValid(ParamModel(tool), args)) => Len(requests) = 1
    /\ (Done /\ error.name \in {"TimeoutException", "HTTPStatusError",
                                "RequestError", "ValueError"})
           => Len(requests) = 1

C1_Witness ==
    /\ Done
    /\ error.name = "HTTPStatusError"
    /\ Len(requests) = 1

\* ------------------------------------------------------------------------
\* C2: a categorical parameter supplied with a value outside its declared
\* enumeration ends the invocation in a parameter-validation error with no
\* GET issued
\* ------------------------------------------------------------------------
C2_EnumRejectedBeforeGet ==
    (pc # "idle" /\ \E n \in DOMAIN args :
         OutsideEnumeration(DeclOf(ParamModel(tool), n), args[n]))
        => RejectedBeforeGet

C2_Witness ==
    /\ RejectedBeforeGet
    /\ tool = "get_seasonal_anime"
    /\ "season" \in DOMAIN args
    /\ args["season"] = JStr("bogus")

\* ------------------------------------------------------------------------
\* C3: a limit outside the documented bound (1..25 for search_anime,
\* search_manga and get_producer_details, 1..500 for get_top_anime and
\* get_top_manga) ends the invocation in a parameter-validation error with
\* no GET issued
\* ------------------------------------------------------------------------
LimitTools == {"search_anime", "search_manga", "get_producer_details",
               "get_top_anime", "get_top_manga"}
DocumentedMaxLimit(t) ==
    IF t \in {"get_top_anime", "get_top_manga"} THEN 500 ELSE 25

C3_LimitRejectedBeforeGet ==
    (/\ pc # "idle"
     /\ tool \in LimitTools
     /\ "limit" \in DOMAIN args
     /\ args["limit"].t = "int"
     /\ (args["limit"].v < 1 \/ args["limit"].v > DocumentedMaxLimit(tool)))
        => RejectedBeforeGet

\* ------------------------------------------------------------------------
\* C4: the query-string mapping of every GET has no key whose value is
\* None; a parameter whose value is None is absent from the mapping
\* ------------------------------------------------------------------------
C4_NoNoneInQuery ==
    \A r \in 1..Len(requests) :
        /\ \A k \in DOMAIN requests[r].query : requests[r].query[k].t # "null"
        /\ \A n \in DOMAIN params :
               params[n].t = "null" => n \notin DOMAIN requests[r].query

C4_Witness ==
    /\ Len(requests) = 1
    /\ tool = "search_anime"
    /\ "limit" \in DOMAIN args
    /\ args["limit"].t = "null"
    /\ DOMAIN requests[1].query = {"query", "order_by", "sort"}

\* ------------------------------------------------------------------------
\* C5: a response with a non-2xx status ends the invocation in an
\* upstream-status error carrying that status code and the response body;
\* the body is never decoded, no record is mapped, nothing is returned
\* ------------------------------------------------------------------------
C5_StatusErrorSurfaced ==
    (Done /\ resp.kind = "http" /\ Non2xx(resp.status))
        => /\ error.name = "HTTPStatusError"
           /\ error.status = resp.status
           /\ error.body = resp.body
           /\ ~decoded
           /\ mapped = 0
           /\ result = NoResult

C5_Witness ==
    /\ Done
    /\ resp.kind = "http"
    /\ resp.status = 500
    /\ error.name = "HTTPStatusError"
    /\ error.status = 500

\* ------------------------------------------------------------------------
\* C6: `data` being an object for a list tool, or a list for a
\* single-record tool, ends the invocation in a response-format error
\* (ValueError); no record is mapped and nothing is returned
\* ------------------------------------------------------------------------
C6_ShapeMismatchRejected ==
    (/\ Done
     /\ GotData
     /\ \/ tool \in ListTools /\ RespData.t = "obj"
        \/ tool \in SingleTools /\ RespData.t = "list")
        => /\ error.name = "ValueError"
           /\ mapped = 0
           /\ result = NoResult

C6_Witness ==
    /\ Done
    /\ GotData
    /\ tool = "get_random_manga"
    /\ RespData.t = "list"
    /\ Len(RespData.v) = MaxData
    /\ error.name = "ValueError"

\* ------------------------------------------------------------------------
\* C7: for every list tool, a `data` list holding elements that are not
\* objects does not fail the invocation: each such element is skipped with
\* a warning and the records of the remaining elements are returned
\* ------------------------------------------------------------------------
DataObjects == SelectSeq(RespData.v, IsDict)

C7_NonObjectsSkipped ==
    (/\ Done
     /\ tool \in ListTools
     /\ GotData
     /\ RespData.t = "list"
     /\ \E i \in 1..Len(RespData.v) : RespData.v[i].t # "obj"
     /\ \A i \in 1..Len(DataObjects) : Conforms(DataObjects[i]))
        => /\ error.name = "none"
           /\ result.shape = "list"
           /\ Len(result.v) = Len(DataObjects)
           /\ Len(SelectSeq(log, LAMBDA l : l = "warning"))
                  = Len(RespData.v) - Len(DataObjects)

\* ------------------------------------------------------------------------
\* C8: every declared field of every returned record is populated: no
\* field of a returned record is None
\* ------------------------------------------------------------------------
C8_AllFieldsPopulated ==
    Returned =>
        \A i \in 1..Len(result.v) :
            \A f \in DOMAIN result.v[i] : result.v[i][f].t # "null"

\* ------------------------------------------------------------------------
\* C9: search_anime maps a one-record envelope whose record has mal_id,
\* aired.from, aired.to and a producers list of objects to exactly one
\* record with that mal_id, start_date = aired.from, end_date = aired.to,
\* the producers' ids in order and the producers' names in order
\* ------------------------------------------------------------------------
HasSearchFields(raw) ==
    /\ raw.t = "obj"
    /\ {"mal_id", "aired", "producers"} \subseteq DOMAIN raw.v
    /\ raw.v["mal_id"].t = "int"
    /\ raw.v["aired"].t = "obj"
    /\ {"from", "to"} \subseteq DOMAIN raw.v["aired"].v
    /\ raw.v["producers"].t = "list"
    /\ \A i \in 1..Len(raw.v["producers"].v) :
           /\ raw.v["producers"].v[i].t = "obj"
           /\ {"mal_id", "name"} \subseteq DOMAIN raw.v["producers"].v[i].v

\* the producer-id list of a returned record, under either spelling
ProducerIds(rec) ==
    IF "producer_mal_ids" \in DOMAIN rec THEN rec["producer_mal_ids"]
    ELSE rec["producers_mal_ids"]

C9_SearchAnimeMapping ==
    (/\ Done
     /\ tool = "search_anime"
     /\ GotData
     /\ RespData.t = "list"
     /\ Len(RespData.v) = 1
     /\ HasSearchFields(RespData.v[1]))
        => LET raw == RespData.v[1].v
               prods == raw["producers"].v
           IN  /\ Returned
               /\ Len(result.v) = 1
               /\ result.v[1]["mal_id"] = raw["mal_id"]
               /\ result.v[1]["start_date"] = raw["aired"].v["from"]
               /\ result.v[1]["end_date"] = raw["aired"].v["to"]
               /\ result.v[1]["producer_names"] =
                      JList([i \in 1..Len(prods) |-> prods[i].v["name"]])
               /\ ProducerIds(result.v[1]) =
                      JList([i \in 1..Len(prods) |-> prods[i].v["mal_id"]])

\* ------------------------------------------------------------------------
\* C10: for search_anime and get_seasonal_anime (sub-object aired) and
\* search_manga (sub-object published), a record that lacks the sub-object
\* or one of its legs is mapped without error, and the start_date /
\* end_date of the lacking leg is the empty string
\* ------------------------------------------------------------------------
SpanKey(t) == IF t = "search_manga" THEN "published" ELSE "aired"
SpanTools == {"search_anime", "get_seasonal_anime", "search_manga"}

LacksLeg(t, raw, leg) ==
    \/ SpanKey(t) \notin DOMAIN raw.v
    \/ leg \notin DOMAIN raw.v[SpanKey(t)].v

C10_MissingSpanDefaults ==
    (/\ Done
     /\ tool \in SpanTools
     /\ GotData
     /\ RespData.t = "list"
     /\ \A i \in 1..Len(RespData.v) : Conforms(RespData.v[i])
     /\ \E i \in 1..Len(RespData.v) :
            LacksLeg(tool, RespData.v[i], "from") \/ LacksLeg(tool, RespData.v[i], "to"))
        => /\ Returned
           /\ Len(result.v) = Len(RespData.v)
           /\ \A i \in 1..Len(RespData.v) :
                /\ LacksLeg(tool, RespData.v[i], "from")
                       => result.v[i]["start_date"] = JStr("")
                /\ LacksLeg(tool, RespData.v[i], "to")
                       => result.v[i]["end_date"] = JStr("")

C10_Witness ==
    /\ Returned
    /\ tool = "get_seasonal_anime"
    /\ GotData
    /\ RespData.t = "list"
    /\ Len(RespData.v) = 2
    /\ "aired" \notin DOMAIN RespData.v[1].v
    /\ RespData.v[2].t = "obj"
    /\ "aired" \in DOMAIN RespData.v[2].v
    /\ DOMAIN RespData.v[2].v["aired"].v = {"from"}
    /\ result.v[1]["start_date"] = JStr("")
    /\ result.v[1]["end_date"] = JStr("")
    /\ result.v[2]["end_date"] = JStr("")

\* ------------------------------------------------------------------------
\* C11: in every record returned by search_anime, get_seasonal_anime and
\* search_manga, the id list and the name list projected from one nested
\* collection have the same length, position j of both comes from the j-th
\* upstream element that is an object, in upstream order, and elements that
\* are not objects appear in neither list
\* ------------------------------------------------------------------------
\* (upstream collection, declared id field, declared name field)
ParallelFields(t) ==
    CASE t = "search_anime" ->
            << << "producers", "producers_mal_ids", "producer_names" >>,
               << "studios", "studio_ids", "studio_name" >>,
               << "genres", "genre_ids", "genre_names" >> >>
      [] t = "get_seasonal_anime" ->
            << << "producers", "producers_mal_ids", "producer_names" >>,
               << "studios", "studio_ids", "studio_names" >>,
               << "genres", "genre_ids", "genre_names" >> >>
      [] t = "search_manga" ->
            << << "authors", "authors_mal_ids", "authors_names" >>,
               << "genres", "genre_ids", "genre_names" >> >>

\* the structured objects of a nested collection, in upstream order
UpstreamObjects(raw, key) ==
    IF key \in DOMAIN raw.v /\ raw.v[key].t = "list"
    THEN SelectSeq(raw.v[key].v, IsDict)
    ELSE << >>

Aligned(rec, raw, trip) ==
    LET src == UpstreamObjects(raw, trip[1])
        ids == rec[trip[2]]
        names == rec[trip[3]]
    IN  /\ ids.t = "list"
        /\ names.t = "list"
        /\ Len(ids.v) = Len(src)
        /\ Len(names.v) = Len(src)
        /\ \A j \in 1..Len(src) :
              /\ ("mal_id" \in DOMAIN src[j].v /\ src[j].v["mal_id"].t = "int")
                     => ids.v[j] = src[j].v["mal_id"]
              /\ ("name" \in DOMAIN src[j].v /\ src[j].v["name"].t = "str")
                     => names.v[j] = src[j].v["name"]

\* every element of `data` was retained, so record i maps element i
AllRetained ==
    /\ Returned
    /\ GotData
    /\ RespData.t = "list"
    /\ result.shape = "list"
    /\ Len(result.v) = Len(RespData.v)

C11_ParallelListsAligned ==
    (AllRetained /\ tool \in SpanTools)
        => \A i \in 1..Len(result.v) :
             \A p \in 1..Len(ParallelFields(tool)) :
                 Aligned(result.v[i], RespData.v[i], ParallelFields(tool)[p])

\* ------------------------------------------------------------------------
\* C12: get_similar_anime and get_similar_manga return, for each raw
\* record, a record whose mal_id and title are the `mal_id` and `title`
\* under the raw record's `entry` sub-object; when `entry` or one of the two
\* keys is absent the field is 0 / "" and no error is raised
\* ------------------------------------------------------------------------
SimilarTools == {"get_similar_anime", "get_similar_manga"}

\* `entry`, where present, is an object with an integer id and a text title
EntryOk(raw) ==
    /\ raw.t = "obj"
    /\ "entry" \in DOMAIN raw.v =>
          /\ raw.v["entry"].t = "obj"
          /\ "mal_id" \in DOMAIN raw.v["entry"].v
                 => raw.v["entry"].v["mal_id"].t \in {"int", "null"}
          /\ "title" \in DOMAIN raw.v["entry"].v
                 => raw.v["entry"].v["title"].t \in {"str", "null"}

EntryField(raw, key, dflt) ==
    IF "entry" \in DOMAIN raw.v /\ key \in DOMAIN raw.v["entry"].v
    THEN raw.v["entry"].v[key]
    ELSE dflt

C12_EntryFlattened ==
    (/\ Done
     /\ tool \in SimilarTools
     /\ GotData
     /\ RespData.t = "list"
     /\ \A i \in 1..Len(RespData.v) : EntryOk(RespData.v[i]))
        => /\ Returned
           /\ Len(result.v) = Len(RespData.v)
           /\ \A i \in 1..Len(RespData.v) :
                /\ result.v[i]["mal_id"] = EntryField(RespData.v[i], "mal_id", JInt(0))
                /\ result.v[i]["title"] = EntryField(RespData.v[i], "title", JStr(""))

C12_Witness ==
    /\ Returned
    /\ tool = "get_similar_manga"
    /\ GotData
    /\ RespData.t = "list"
    /\ Len(RespData.v) = 2
    /\ RespData.v[1].t = "obj"
    /\ RespData.v[2].t = "obj"
    /\ "entry" \in DOMAIN RespData.v[1].v
    /\ RespData.v[1].v["entry"].t = "obj"
    /\ DOMAIN RespData.v[1].v["entry"].v = {"mal_id", "title"}
    /\ "entry" \notin DOMAIN RespData.v[2].v
    /\ "mal_id" \in DOMAIN RespData.v[2].v
    /\ result.v[1]["mal_id"] = JInt(37521)
    /\ result.v[1]["title"] = JStr("Vinland Saga")
    /\ result.v[2]["mal_id"] = JInt(0)
    /\ result.v[2]["title"] = JStr("")

\* ------------------------------------------------------------------------
\* C13: an invocation in which a timeout, a non-2xx status, a network
\* error or a response-format error occurred has returned nothing (neither
\* an empty nor a partial list): its last log entry is at error level and
\* it raised the error.  No invocation that raised has a result.
\* ------------------------------------------------------------------------
\* the 2xx body is not JSON, not an object, or its `data` has the wrong shape
FormatError ==
    /\ resp.kind = "http"
    /\ ~Non2xx(resp.status)
    /\ \/ ~resp.body.json
       \/ resp.body.v.t # "obj"
       \/ /\ "data" \in DOMAIN resp.body.v.v
          /\ IF tool \in SingleTools THEN RespData.t # "obj" ELSE RespData.t # "list"

FatalError ==
    \/ resp.kind \in {"timeout", "network"}
    \/ resp.kind = "http" /\ Non2xx(resp.status)
    \/ FormatError

\* the exception class each fatal condition surfaces as
FatalErrorNames ==
    CASE resp.kind = "timeout" -> {"TimeoutException"}
      [] resp.kind = "network" -> {"RequestError"}
      [] resp.kind = "http" /\ Non2xx(resp.status) -> {"HTTPStatusError"}
      [] OTHER -> {"ValueError", "AttributeError"}

C13_FatalErrorsRaised ==
    /\ (Done /\ FatalError)
          => /\ error.name \in FatalErrorNames
             /\ result = NoResult
             /\ log # << >>
             /\ log[Len(log)] = "error"
    /\ (Done /\ error.name # "none") => result = NoResult

C13_Witness ==
    /\ Done
    /\ tool = "search_anime"
    /\ resp.kind = "timeout"
    /\ error.name = "TimeoutException"
    /\ result = NoResult
    /\ log = << "info", "error", "error" >>

\* ------------------------------------------------------------------------
\* C19: the list a list tool returns is an order-preserving image of the
\* upstream `data` list: it is never longer than `data`, record i is the
\* mapping of the i-th retained element, and an element that was not
\* retained is a malformed one
\* ------------------------------------------------------------------------
\* f picks, for each returned record, the upstream element it was mapped from
OrderPreservingImage(f) ==
    /\ \A i, j \in DOMAIN f : i < j => f[i] < f[j]
    /\ \A i \in DOMAIN f :
          /\ MapError(tool, RespData.v[f[i]]) = "ok"
          /\ result.v[i] = MapRecord(tool, RespData.v[f[i]])
    /\ \A k \in 1..Len(RespData.v) :
          (\A i \in DOMAIN f : f[i] # k) => ~Conforms(RespData.v[k])

C19_OrderPreservingImage ==
    (/\ Returned
     /\ tool \in ListTools
     /\ GotData
     /\ RespData.t = "list")
        => /\ result.shape = "list"
           /\ Len(result.v) <= Len(RespData.v)
           /\ \E f \in [1..Len(result.v) -> 1..Len(RespData.v)] :
                  OrderPreservingImage(f)

C19_Witness ==
    /\ Returned
    /\ tool = "get_anime_news"
    /\ GotData
    /\ RespData.t = "list"
    /\ Len(RespData.v) = 2
    /\ Len(result.v) = 2
    /\ result.v[1]["title"] = JStr("Attack on Titan")
    /\ result.v[2]["title"] = JStr("")

\* ------------------------------------------------------------------------
\* C20: a search_anime or search_manga invocation whose arguments have no
\* `query`, or whose `query` is the empty string, ends in a parameter
\* validation error and has issued no GET
\* ------------------------------------------------------------------------
SearchTools == {"search_anime", "search_manga"}

QueryMissingOrEmpty ==
    \/ "query" \notin DOMAIN args
    \/ args["query"] = JStr("")

C20_QueryRequired ==
    (Done /\ tool \in SearchTools /\ QueryMissingOrEmpty) => RejectedBeforeGet

C20_Witness ==
    /\ Done
    /\ tool = "search_manga"
    /\ "query" \notin DOMAIN args
    /\ "limit" \in DOMAIN args
    /\ args["limit"] = JInt(25)
    /\ RejectedBeforeGet

\* ------------------------------------------------------------------------
\* C18: when the BASE_URL environment variable is unset or empty, loading
\* the configuration fails: the server is never serving and no invocation
\* issues a GET; every GET that is issued has a non-empty base URL
\* ------------------------------------------------------------------------
BaseUrlMissing == IsNone(env) \/ (env.t = "str" /\ env.v = "")

C18_BaseUrlRequired ==
    /\ BaseUrlMissing =>
          /\ server # "serving"
          /\ pc = "idle"
          /\ requests = << >>
    /\ \A r \in 1..Len(requests) :
          /\ requests[r].base # ""
          /\ requests[r].base # FormatValue(JNull)

C18_Witness ==
    /\ env.t = "str"
    /\ env.v = ""
    /\ server = "failed"
    /\ BASE_URL = JNull
    /\ requests = << >>

\* ------------------------------------------------------------------------
\* Vocabulary of the properties of concurrent invocations
\* ------------------------------------------------------------------------
Awaiting(k) == tasks[k].pc = "awaiting"
Ended(k) == tasks[k].pc = "done"

\* the positions of the log entries task k appended
EntriesOf(k) == {i \in 1..Len(logfile) : logfile[i].task = k}

\* task k logged while task j was running: between two entries of j
Overlapped(j, k) ==
    \E i, l \in EntriesOf(j) : \E m \in EntriesOf(k) : i < m /\ m < l

\* task b logged its parameters, before its GET, after the last entry of a
InSequence(a, b) ==
    /\ LogsBeforeGet(tasks[b].tool)
    /\ EntriesOf(a) # {}
    /\ EntriesOf(b) # {}
    /\ \A i \in EntriesOf(a) : \A m \in EntriesOf(b) : i < m

\* what an invocation of t with arguments a raises or returns when the
\* upstream answers r and nothing else runs
AloneOutcome(t, a, r) ==
    IF ~ArgsValid(ParamModel(t), a)
    THEN [error |-> Raised("ParameterValidationError"), result |-> NoResult]
    ELSE CASE r.kind = "timeout" ->
                [error |-> Raised("TimeoutException"), result |-> NoResult]
           [] r.kind = "network" ->
                [error |-> Raised("RequestError"), result |-> NoResult]
           [] r.kind = "http" ->
                [error |-> HandleResponse(t, r.status, r.body).error,
                 result |-> HandleResponse(t, r.status, r.body).result]

\* ------------------------------------------------------------------------
\* C14: every invocation has a client of its own while it runs and that
\* client is closed once the invocation has ended, by returning or by
\* raising: the open clients are exactly those of the running invocations,
\* no two invocations have the same client, and no client is open when no
\* invocation is running
\* ------------------------------------------------------------------------
C14_ClientReleased ==
    /\ \A k \in Tasks : Awaiting(k) => tasks[k].client \in clients
    /\ \A k \in Tasks : ~Awaiting(k) => tasks[k].client \notin clients
    /\ \A j, k \in Tasks :
          (j # k /\ tasks[j].client # 0) => tasks[j].client # tasks[k].client
    /\ Cardinality(clients) = Cardinality({k \in Tasks : Awaiting(k)})
    /\ (\A k \in Tasks : ~Awaiting(k)) => clients = {}

C14_Witness ==
    /\ Ended(1)
    /\ tasks[1].error.name = "AttributeError"
    /\ tasks[1].client = 1
    /\ Awaiting(2)
    /\ clients = {2}

\* ------------------------------------------------------------------------
\* C15: every invocation that is waiting for the upstream eventually ends;
\* its wait never exceeds the client's timeout, and it ends in a timeout
\* error only when the timeout has elapsed
\* ------------------------------------------------------------------------
TimedOutIn(k) ==
    /\ Awaiting(k)
    /\ tasks'[k].error.name = "TimeoutException"

C15_Terminates ==
    /\ \A k \in Tasks : Awaiting(k) ~> Ended(k)
    /\ [](\A k \in Tasks :
            Awaiting(k) => tasks[k].waited < ClientTimeout(tasks[k].tool) + TickSeconds)
    /\ [][\A k \in Tasks :
            TimedOutIn(k) => tasks[k].waited >= ClientTimeout(tasks[k].tool)]_vars

C15_Witness ==
    /\ Ended(1)
    /\ tasks[1].tool = "search_anime"
    /\ tasks[1].resp.kind = "timeout"
    /\ tasks[1].error.name = "TimeoutException"
    /\ Ended(2)
    /\ tasks[2].tool = "get_random_manga"
    /\ tasks[2].error.name = "TimeoutException"

SameCall(a, b) ==
    /\ tasks[a].tool = tasks[b].tool
    /\ tasks[a].id = tasks[b].id
    /\ tasks[a].args = tasks[b].args
    /\ tasks[a].resp = tasks[b].resp

StripNulls(raw) ==
    JObj([k \in {n \in DOMAIN raw.v : ~IsNone(raw.v[n])} |-> raw.v[k]])

\* a record that conforms to the upstream schema wherever its value is not
\* null
NullTolerant(raw) == raw.t = "obj" /\ Conforms(StripNulls(raw))

\* the raw records of the envelope: the elements of a `data` list, or the
\* one `data` object of a single-record tool
RawElems == IF RespData.t = "list" THEN RespData.v ELSE << RespData >>

\* ------------------------------------------------------------------------
\* C21: field lookups are null-safe.  For every tool, a raw record in which
\* keys are present with a JSON null value (a null scalar, a null
\* sub-object, a null collection) is mapped, without any error, to the
\* record that the same raw record without those keys is mapped to
\* ------------------------------------------------------------------------
C21_NullSafeLookups ==
    (/\ Done
     /\ GotData
     /\ DataShapeOk(tool, RespData)
     /\ \A i \in 1..Len(RawElems) : NullTolerant(RawElems[i]))
        => /\ Returned
           /\ Len(result.v) = Len(RawElems)
           /\ \A i \in 1..Len(RawElems) :
                  result.v[i] = MapRecord(tool, StripNulls(RawElems[i]))

\* ------------------------------------------------------------------------
\* C22: the error taxonomy is closed.  A failing invocation fails with a
\* parameter-validation error, a timeout error, an upstream-status error, a
\* network error or a response-format error (ValueError, of which
\* pydantic's ValidationError is a subclass), and with nothing else: not
\* when the body is valid JSON whose top level is not an object, and not
\* when an element of `data` is not an object
\* ------------------------------------------------------------------------
TaxonomyErrors ==
    {"ParameterValidationError", "TimeoutException", "HTTPStatusError",
     "RequestError", "ValueError", "ValidationError"}

C22_ClosedTaxonomy ==
    (Done /\ error.name # "none") => error.name \in TaxonomyErrors

\* ------------------------------------------------------------------------
\* C23: a 2xx envelope that is a JSON object without a `data` key is not an
\* error: a list tool returns the empty list, and get_random_anime /
\* get_random_manga return one record whose every field is its literal
\* default (0 or "")
\* ------------------------------------------------------------------------
NoDataKey ==
    /\ resp.kind = "http"
    /\ ~Non2xx(resp.status)
    /\ resp.body.json
    /\ resp.body.v.t = "obj"
    /\ "data" \notin DOMAIN resp.body.v.v

IsLiteralDefault(x) ==
    /\ x.t \in {"int", "str"}
    /\ x.t = "int" => x.v = 0
    /\ x.t = "str" => x.v = ""

C23_MissingDataDefaults ==
    (Done /\ NoDataKey)
        => /\ Returned
           /\ tool \in ListTools => result = [shape |-> "list", v |-> << >>]
           /\ tool \in SingleTools =>
                 /\ result.shape = "record"
                 /\ Len(result.v) = 1
                 /\ \A f \in DOMAIN result.v[1] : IsLiteralDefault(result.v[1][f])

C23_Witness ==
    /\ Returned
    /\ NoDataKey
    /\ DOMAIN resp.body.v.v = {"pagination"}
    /\ tool = "get_random_anime"
    /\ result.shape = "record"
    /\ result.v[1]["title"] = JStr("")
    /\ result.v[1]["episodes"] = JInt(0)

\* ------------------------------------------------------------------------
\* C24: in search_anime, once `data` has been validated as a list the
\* invocation returns a list and raises nothing: a record whose mapping
\* raises (whether or not it is an object) is omitted with one warning, the
\* other records are mapped in order, and the length of the result is the
\* number of records mapped without exception
\* ------------------------------------------------------------------------
\* the payload read by response_data.get('data', []), validated as a list
ValidatedList ==
    /\ resp.kind = "http"
    /\ ~Non2xx(resp.status)
    /\ resp.body.json
    /\ resp.body.v.t = "obj"
    /\ "data" \in DOMAIN resp.body.v.v => RespData.t = "list"

PayloadList == IF "data" \in DOMAIN resp.body.v.v THEN RespData.v ELSE << >>

MappedCleanly(raw) == MapError("search_anime", raw) = "ok"

Warnings == SelectSeq(log, LAMBDA l : l = "warning")

C24_SearchAnimeNeverRaises ==
    (Done /\ tool = "search_anime" /\ ValidatedList)
        => LET clean == SelectSeq(PayloadList, MappedCleanly) IN
           /\ Returned
           /\ result.shape = "list"
           /\ Len(result.v) = Len(clean)
           /\ \A i \in 1..Len(clean) :
                  result.v[i] = MapRecord("search_anime", clean[i])
           /\ Len(Warnings) = Len(PayloadList) - Len(clean)
           /\ \A i \in 1..Len(PayloadList) :
                  Conforms(PayloadList[i]) => MappedCleanly(PayloadList[i])

C24_Witness ==
    /\ Returned
    /\ tool = "search_anime"
    /\ GotData
    /\ RespData.t = "list"
    /\ Len(RespData.v) = 2
    /\ RespData.v[1].t = "obj"
    /\ "aired" \in DOMAIN RespData.v[1].v
    /\ RespData.v[1].v["aired"].t = "null"
    /\ Conforms(RespData.v[2])
    /\ Len(result.v) = 1
    /\ result.v[1]["mal_id"] = JInt(16498)
    /\ Len(Warnings) = 1

\* ------------------------------------------------------------------------
\* C25: every GET of get_seasonal_anime targets /seasons/<year>/<season>
\* with <season> one of winter, spring, summer, fall and <year> an integer,
\* whatever parameter object passed validation (season or year omitted or
\* None included)
\* ------------------------------------------------------------------------
C25_SeasonalPath ==
    tool = "get_seasonal_anime" =>
        \A r \in 1..Len(requests) :
            LET path == requests[r].path IN
            /\ Len(path) = 3
            /\ path[1] = "seasons"
            /\ params["year"].t = "int"
            /\ path[2] = ToString(params["year"].v)
            /\ path[3] \in {"winter", "spring", "summer", "fall"}

\* ------------------------------------------------------------------------
\* C26: every GET targets the base URL loaded at startup followed by the
\* fixed path of the invoked tool, with the caller's integer id where the
\* path has one; the base URL never changes once the server is serving, and
\* no tool requests the path of another tool
\* ------------------------------------------------------------------------
FixedPathTools == Tools \ {"get_seasonal_anime"}

FixedPath(t, i) ==
    CASE t = "search_anime"         -> << "anime" >>
      [] t = "get_top_anime"        -> << "top", "anime" >>
      [] t = "get_random_anime"     -> << "random", "anime" >>
      [] t = "get_anime_reviews"    -> << "anime", ToString(i), "reviews" >>
      [] t = "get_similar_anime"    -> << "anime", ToString(i), "recommendations" >>
      [] t = "get_anime_news"       -> << "anime", ToString(i), "news" >>
      [] t = "search_manga"         -> << "manga" >>
      [] t = "get_top_manga"        -> << "top", "manga" >>
      [] t = "get_random_manga"     -> << "random", "manga" >>
      [] t = "get_manga_reviews"    -> << "manga", ToString(i), "reviews" >>
      [] t = "get_similar_manga"    -> << "manga", ToString(i), "recommendations" >>
      [] t = "get_manga_news"       -> << "manga", ToString(i), "news" >>
      [] t = "get_producer_details" -> << "producers" >>

TargetsOwnPath ==
    \A r \in 1..Len(requests) :
        /\ env.t = "str"
        /\ requests[r].base = env.v
        /\ BASE_URL = env
        /\ tool \in FixedPathTools => requests[r].path = FixedPath(tool, id)
        /\ \A t \in FixedPathTools \ {tool} : \A i \in 1..MaxId :
               requests[r].path # FixedPath(t, i)

C26_FixedBaseAndPath ==
    /\ []TargetsOwnPath
    /\ [][server = "serving" => BASE_URL' = BASE_URL]_vars

C26_Witness ==
    /\ Done
    /\ tool = "get_manga_news"
    /\ id = MaxId
    /\ server = "serving"
    /\ requests = << [base |-> "https://api.jikan.moe/v4",
                      path |-> << "manga", ToString(MaxId), "news" >>,
                      query |-> NoQuery, timeout |-> 30] >>

\* ------------------------------------------------------------------------
\* C27: the timeout configured for the GET of every list/search tool is
\* strictly greater than the timeout configured for each single-entity
\* lookup tool (get_random_anime, get_random_manga)
\* ------------------------------------------------------------------------
ListSearchTools ==
    {"search_anime", "get_top_anime", "get_seasonal_anime", "search_manga",
     "get_top_manga", "get_producer_details"}

C27_ListTimeoutLonger ==
    tool \in ListSearchTools =>
        \A r \in 1..Len(requests) : \A t \in SingleTools :
            requests[r].timeout > ClientTimeout(t)

\* ------------------------------------------------------------------------
\* C28: the query-string mapping a tool sends holds exactly the fields of
\* its parameter object whose value is not None, each under its own name
\* with its value unchanged: a supplied value as supplied, and a field that
\* was not supplied with its declared default (limit=5,
\* order_by='popularity', sort='desc' for search_anime and search_manga;
\* preliminary=true, spoilers=false for the review tools)
\* ------------------------------------------------------------------------
ReviewTools == {"get_anime_reviews", "get_manga_reviews"}

\* the declared default the caller relies on when leaving field n out
SentByDefault(t, n) ==
    CASE t \in SearchTools /\ n = "limit"       -> JInt(5)
      [] t \in SearchTools /\ n = "order_by"    -> JStr("popularity")
      [] t \in SearchTools /\ n = "sort"        -> JStr("desc")
      [] t \in ReviewTools /\ n = "preliminary" -> JBool(TRUE)
      [] t \in ReviewTools /\ n = "spoilers"    -> JBool(FALSE)
      [] OTHER -> JNull

C28_QueryIsPresentParams ==
    (tool \in QueryTools /\ Len(requests) = 1)
        => LET query == requests[1].query IN
           /\ DOMAIN query = {n \in DOMAIN params : params[n].t # "null"}
           /\ \A n \in DOMAIN query : query[n] = params[n]
           /\ \A n \in DOMAIN args : params[n] = args[n]
           /\ \A n \in DOMAIN params \ DOMAIN args :
                  SentByDefault(tool, n).t # "null"
                      => n \in DOMAIN query /\ query[n] = SentByDefault(tool, n)

C28_Witness ==
    /\ tool = "get_manga_reviews"
    /\ Len(requests) = 1
    /\ DOMAIN args = {"spoilers"}
    /\ args["spoilers"] = JBool(TRUE)
    /\ DOMAIN requests[1].query = {"preliminary", "spoilers"}
    /\ requests[1].query["preliminary"] = JBool(TRUE)
    /\ requests[1].query["spoilers"] = JBool(TRUE)

\* ------------------------------------------------------------------------
\* C29: each record get_producer_details returns has in `titles` the
\* `title` strings of the raw producer's `titles` collection, in upstream
\* order; an entry of the collection that is not an object is left out and
\* fails neither the record nor the invocation
\* ------------------------------------------------------------------------
\* a producer whose `about` is a text and whose `titles` is a list in which
\* every object has a text title
ProducerOk(raw) ==
    /\ raw.t = "obj"
    /\ "about" \in DOMAIN raw.v => raw.v["about"].t \in {"str", "null"}
    /\ "titles" \in DOMAIN raw.v =>
          /\ raw.v["titles"].t = "list"
          /\ \A j \in 1..Len(UpstreamObjects(raw, "titles")) :
                "title" \in DOMAIN UpstreamObjects(raw, "titles")[j].v
                    => UpstreamObjects(raw, "titles")[j].v["title"].t = "str"

TitlesOf(raw) ==
    LET objs == UpstreamObjects(raw, "titles") IN
    JList([j \in 1..Len(objs) |->
              IF "title" \in DOMAIN objs[j].v THEN objs[j].v["title"] ELSE JStr("")])

C29_ProducerTitles ==
    (/\ Done
     /\ tool = "get_producer_details"
     /\ GotData
     /\ RespData.t = "list"
     /\ \A i \in 1..Len(RespData.v) : ProducerOk(RespData.v[i]))
        => /\ Returned
           /\ Len(result.v) = Len(RespData.v)
           /\ \A i \in 1..Len(RespData.v) :
                  result.v[i]["titles"] = TitlesOf(RespData.v[i])

====
